---- MODULE Spec2Model ----
(***************************************************************************)
(* Model of the adaptive RKF stepper of bifrost-rust                       *)
(* (src/tracing/stepping/rkf.rs) and of the callers that drive it.         *)
(*                                                                         *)
(* Numbers.  The real-valued options of the configuration are rationals    *)
(* <<n, d>>, d > 0.  Lengths held by the stepper (step sizes, distances)   *)
(* are integers counting units of 2^(-FracBits).  A normalized step error  *)
(* is kept on the grid                                                     *)
(*     error = 2^(-10 * order * m),   m an integer "level",                *)
(* written <<m>>, or is exactly 0.0, written << >>.  On that grid every    *)
(* powf of the step size control is an exact power of two, and with step   *)
(* scale bounds and safety factor that are powers of two every step scale  *)
(* is one too: a scale is kept as its exponent.                            *)
(***************************************************************************)
EXTENDS Integers, Sequences, FiniteSets, TLC

VARIABLES
    config,          \* RKFStepperConfig of the stepper (with the scheme's order)
    state,           \* RKFStepperState3
    placed,          \* a placement has succeeded on this stepper
    live,            \* no call has returned Stopped since the last placement
    rev_run,         \* latest consecutive acceptable attempts that reversed
    pc,              \* who drives the stepper, and where the driver is
    tracer_result,   \* TracerResult of the driver
    trajectory,      \* the points the callback has recorded for this trace
    last,            \* the last call: its inputs, its result, the state before
    n_calls,
    tasks,           \* the traces of a set: one per distribution or seed
    steppers,        \* the steppers the factory has produced
    collected        \* what the set has gathered from its traces

parvars == <<tasks, steppers, collected>>

vars == <<config, state, placed, live, rev_run, pc, tracer_result, trajectory,
          last, n_calls, tasks, steppers, collected>>

----------------------------------------------------------------------------
(* Bounds of the model *)

\* Number of place/step calls explored on one stepper.
MaxCalls == 3

\* The callback may terminate on any of its first MaxTermAt invocations
\* within one call.
MaxTermAt == 3

\* Lengths are multiples of 2^(-FracBits).
FracBits == 24

\* Number of distributions of a swarm, of seeds of a field line set.
MaxSeeds == 2

\* On a trace of unbounded length the step size is followed within
\* MaxStepDoublings doublings or halvings of the initial step size.
MaxStepDoublings == 2

----------------------------------------------------------------------------
(* Arithmetic on ftr values *)

RECURSIVE Pow2(_)
Pow2(k) == IF k = 0 THEN 1 ELSE 2 * Pow2(k - 1)

RECURSIVE Log2(_)
Log2(n) == IF n <= 1 THEN 0 ELSE 1 + Log2(n \div 2)

\* rationals <<n, d>> with d > 0
RZero == <<0, 1>>
ROne == <<1, 1>>
RLt(a, b) == a[1] * b[2] < b[1] * a[2]
RLe(a, b) == a[1] * b[2] <= b[1] * a[2]
RSub(a, b) == <<a[1] * b[2] - b[1] * a[2], a[2] * b[2]>>
RMul(a, b) == <<a[1] * b[1], a[2] * b[2]>>
RDiv(a, n) == <<a[1], a[2] * n>>

\* the exponent of a rational that is a power of two
Log2R(r) == Log2(r[1]) - Log2(r[2])

\* a length in units
Units(r) == (r[1] * Pow2(FracBits)) \div r[2]

\* length * 2^x
Scale(length, x) ==
    IF x >= 0 THEN length * Pow2(x) ELSE length \div Pow2(-x)

Clamp(x, lo, hi) == IF x < lo THEN lo ELSE IF x > hi THEN hi ELSE x
Max(x, y) == IF x < y THEN y ELSE x

----------------------------------------------------------------------------
(* Vectors: axis-aligned 2-vectors stand for Vec3<ftr> *)

Dot(a, b) == a[1] * b[1] + a[2] * b[2]
Sgn(x) == IF x > 0 THEN 1 ELSE IF x < 0 THEN -1 ELSE 0
VecIsZero(v) == v[1] = 0 /\ v[2] = 0
\* Vec3::normalize, exact for axis-aligned vectors
Normalize(v) == <<Sgn(v[1]), Sgn(v[2])>>
VecZero == <<0, 0>>
East == <<1, 0>>
West == <<-1, 0>>
North == <<0, 1>>

----------------------------------------------------------------------------
(* Normalized errors *)

ErrZero == << >>
Err(m) == <<m>>
ErrIsZero(e) == Len(e) = 0

\* error <= 1.0
ErrLeOne(e) == ErrIsZero(e) \/ e[1] >= 0
\* 0.0 < error
ErrGtZero(e) == ~ErrIsZero(e)
\* new_error < 1e-9:  2^(-30) < 1e-9 < 2^(-29)
ErrLtTiny(cfg, e) == ErrIsZero(e) \/ 10 * cfg.scheme_order * e[1] >= 30

\* ftr::powf(error, k) for k = <<n, d>>: whether it is 0.0, and else its
\* exponent (0^0 = 1 as for IEEE powf)
PowfIsZero(e, k) == k[1] # 0 /\ ErrIsZero(e)
PowfExp(cfg, e, k) ==
    IF k[1] = 0 THEN 0
    ELSE -((10 * cfg.scheme_order * e[1] * k[1]) \div k[2])

PIParams(k_i, k_p) == [k_i |-> k_i, k_p |-> k_p]

PIActivated(scheme_order) ==
    PIParams(RDiv(<<2, 5>>, scheme_order),
             RSub(RDiv(ROne, scheme_order),
                  RMul(<<3, 4>>, RDiv(<<2, 5>>, scheme_order))))

PIDeactivated(scheme_order) == PIParams(RZero, RDiv(ROne, scheme_order))

PIControl(cfg) ==
    IF cfg.use_pi_control THEN PIActivated(cfg.scheme_order)
    ELSE PIDeactivated(cfg.scheme_order)

----------------------------------------------------------------------------
(* Configurations *)

MkConfig(attempts, reversals, pi, order, safety, dense, max_scale) ==
    [dense_step_size |-> dense,
     max_step_attempts |-> attempts,
     absolute_tolerance |-> <<1, 1000000>>,
     relative_tolerance |-> <<1, 1000000>>,
     safety_factor |-> safety,
     min_step_scale |-> <<1, 2>>,
     max_step_scale |-> max_scale,
     initial_error |-> Err(1),
     initial_step_size |-> ROne,
     sudden_reversals_for_sink |-> reversals,
     use_pi_control |-> pi,
     scheme_order |-> order]

\* faulty variant: the two step scale bounds are not compared
validate_unordered(cfg) ==
    /\ RLt(RZero, cfg.dense_step_size)
    /\ cfg.max_step_attempts > 0
    /\ RLt(RZero, cfg.absolute_tolerance)
    /\ RLe(RZero, cfg.relative_tolerance)
    /\ RLt(RZero, cfg.safety_factor) /\ RLe(cfg.safety_factor, ROne)
    /\ RLt(RZero, cfg.min_step_scale)
    /\ RLt(RZero, cfg.initial_step_size)
    /\ ErrGtZero(cfg.initial_error) /\ ErrLeOne(cfg.initial_error)
    /\ cfg.sudden_reversals_for_sink > 0

validate(cfg) ==
    /\ RLt(RZero, cfg.dense_step_size)
    /\ cfg.max_step_attempts > 0
    /\ RLt(RZero, cfg.absolute_tolerance)
    /\ RLe(RZero, cfg.relative_tolerance)
    /\ RLt(RZero, cfg.safety_factor) /\ RLe(cfg.safety_factor, ROne)
    /\ RLt(RZero, cfg.min_step_scale)
    /\ RLe(cfg.min_step_scale, cfg.max_step_scale)
    /\ RLt(RZero, cfg.initial_step_size)
    /\ ErrGtZero(cfg.initial_error) /\ ErrLeOne(cfg.initial_error)
    /\ cfg.sudden_reversals_for_sink > 0

Configs ==
    { MkConfig(1, 1, TRUE, 2, ROne, ROne, <<2, 1>>),
      MkConfig(2, 2, TRUE, 2, <<1, 2>>, <<2, 1>>, <<2, 1>>),
      MkConfig(2, 2, FALSE, 4, <<1, 2>>, <<1, 2>>, ROne),
      [MkConfig(3, 2, TRUE, 2, ROne, ROne, <<2, 1>>)
          EXCEPT !.min_step_scale = ROne],
      [MkConfig(1, 2, TRUE, 2, ROne, <<1, 2>>, ROne)
          EXCEPT !.min_step_scale = <<1, 256>>] }

\* the constants of RKFStepperConfig
DEFAULT_DENSE_STEP_SIZE == <<1, 100>>
DEFAULT_MAX_STEP_ATTEMPTS == 16
DEFAULT_ABSOLUTE_TOLERANCE == <<1, 1000000>>
DEFAULT_RELATIVE_TOLERANCE == <<1, 1000000>>
DEFAULT_SAFETY_FACTOR == <<9, 10>>
DEFAULT_MIN_STEP_SCALE == <<1, 5>>
DEFAULT_MAX_STEP_SCALE == <<10, 1>>
\* 1e-4 lies between two levels of the error grid; the level below it
\* stands for it (validate compares it with 0.0 and 1.0 only)
DEFAULT_INITIAL_ERROR == Err(1)
DEFAULT_INITIAL_STEP_SIZE == <<1, 10000>>
DEFAULT_SUDDEN_REVERSALS_FOR_SINK == 3

\* RKFStepperConfig::default(), for a stepper of the given order
default(order) ==
    [dense_step_size |-> DEFAULT_DENSE_STEP_SIZE,
     max_step_attempts |-> DEFAULT_MAX_STEP_ATTEMPTS,
     absolute_tolerance |-> DEFAULT_ABSOLUTE_TOLERANCE,
     relative_tolerance |-> DEFAULT_RELATIVE_TOLERANCE,
     safety_factor |-> DEFAULT_SAFETY_FACTOR,
     min_step_scale |-> DEFAULT_MAX_STEP_SCALE,
     max_step_scale |-> DEFAULT_MIN_STEP_SCALE,
     initial_error |-> DEFAULT_INITIAL_ERROR,
     initial_step_size |-> DEFAULT_INITIAL_STEP_SIZE,
     sudden_reversals_for_sink |-> DEFAULT_SUDDEN_REVERSALS_FOR_SINK,
     use_pi_control |-> TRUE,
     scheme_order |-> order]

\* The configurations a caller may hand to the constructor: the options of
\* the command line take any value.
CandidateConfigs ==
    { [dense_step_size |-> dense,
       max_step_attempts |-> attempts,
       absolute_tolerance |-> abs_tol,
       relative_tolerance |-> rel_tol,
       safety_factor |-> safety,
       min_step_scale |-> min_scale,
       max_step_scale |-> max_scale,
       initial_error |-> ierr,
       initial_step_size |-> istep,
       sudden_reversals_for_sink |-> reversals,
       use_pi_control |-> TRUE,
       scheme_order |-> 4] :
         dense \in {RZero, DEFAULT_DENSE_STEP_SIZE},
         attempts \in {0, DEFAULT_MAX_STEP_ATTEMPTS},
         abs_tol \in {<<-1, 1000000>>, RZero, DEFAULT_ABSOLUTE_TOLERANCE},
         rel_tol \in {<<-1, 1000000>>, RZero, DEFAULT_RELATIVE_TOLERANCE},
         safety \in {RZero, DEFAULT_SAFETY_FACTOR, <<11, 10>>},
         min_scale \in {<<-1, 5>>, RZero, DEFAULT_MIN_STEP_SCALE, DEFAULT_MAX_STEP_SCALE},
         max_scale \in {RZero, DEFAULT_MIN_STEP_SCALE, DEFAULT_MAX_STEP_SCALE},
         ierr \in {ErrZero, DEFAULT_INITIAL_ERROR, Err(-1)},
         istep \in {RZero, DEFAULT_INITIAL_STEP_SIZE},
         reversals \in {0, 1, DEFAULT_SUDDEN_REVERSALS_FOR_SINK} }
    \cup {default(4)}

----------------------------------------------------------------------------
(* Stepper state *)

NewState(cfg) ==
    [position |-> 0,
     direction |-> VecZero,
     distance |-> 0,
     step_size |-> Units(cfg.initial_step_size),
     error |-> cfg.initial_error,
     n_sudden_reversals |-> 0,
     previous_step_size |-> 0,
     previous_position |-> 0,
     previous_direction |-> VecZero,
     intermediate_directions |-> << >>,
     previous_step_displacement |-> VecZero,
     previous_step_wrapped |-> FALSE,
     next_output_distance |-> 0]

\* faulty variant: the reversal counter and the error survive a placement
reset_state_partial(cfg, st, position, direction) ==
    [position |-> position,
     direction |-> direction,
     distance |-> 0,
     step_size |-> Units(cfg.initial_step_size),
     error |-> st.error,
     n_sudden_reversals |-> st.n_sudden_reversals,
     previous_step_size |-> 0,
     previous_position |-> position,
     previous_direction |-> direction,
     intermediate_directions |-> << >>,
     previous_step_displacement |-> VecZero,
     previous_step_wrapped |-> FALSE,
     next_output_distance |-> Units(cfg.dense_step_size)]

reset_state(cfg, st, position, direction) ==
    [position |-> position,
     direction |-> direction,
     distance |-> 0,
     step_size |-> Units(cfg.initial_step_size),
     error |-> cfg.initial_error,
     n_sudden_reversals |-> 0,
     previous_step_size |-> 0,
     previous_position |-> position,
     previous_direction |-> direction,
     intermediate_directions |-> << >>,
     previous_step_displacement |-> VecZero,
     previous_step_wrapped |-> FALSE,
     next_output_distance |-> Units(cfg.dense_step_size)]

----------------------------------------------------------------------------
(* Callback: the caller's closure.  It returns Terminate on its term_at-th *)
(* invocation within the call (0: never) and records every point given.   *)

Callback(term_at, k) == IF k = term_at THEN "Terminate" ELSE "Continue"

\* what the callback is handed: a stepper position, or a dense position
\* (the interpolation of the last step at a fraction), and the arc length
StepperPoint(st) ==
    [pos |-> st.position, dist |-> st.distance, dense |-> FALSE,
     fraction |-> RZero, coefs |-> << >>]

----------------------------------------------------------------------------
(* Placement *)

SampleOk(v) == <<"Ok", v>>
SampleOutOfBounds == <<"OutOfBounds">>
NoWrap == << >>
WrapTo(p) == <<p>>

Direction(res, position, direction) ==
    [res |-> res, position |-> position, direction |-> direction]

compute_direction(smp, position) ==
    IF smp.first[1] = "Ok" THEN
        IF VecIsZero(smp.first[2])
        THEN Direction("Null", position, VecZero)
        ELSE Direction("Ok", position, Normalize(smp.first[2]))
    ELSE IF smp.wrap # NoWrap THEN
        IF smp.second[1] = "Ok" THEN
            IF VecIsZero(smp.second[2])
            THEN Direction("Null", position, VecZero)
            ELSE Direction("Ok", smp.wrap[1], Normalize(smp.second[2]))
        ELSE Direction("Panic", position, VecZero)
    ELSE Direction("OutOfBounds", position, VecZero)

\* faulty variant: the wrapped position is dropped, the stepper is put at `position`
PlaceAt_unwrapped(cfg, st, position, cd) ==
    IF cd.res = "Ok"
    THEN [st |-> reset_state(cfg, st, position, cd.direction), res |-> "Ok"]
    ELSE [st |-> st, res |-> cd.res]

\* faulty variant: the state is reset before the direction is looked at
PlaceAt_reset_first(cfg, st, position, cd) ==
    [st |-> reset_state(cfg, st, cd.position, cd.direction), res |-> cd.res]

\* the match on the computed direction
PlaceAt(cfg, st, position, cd) ==
    IF cd.res = "Ok"
    THEN [st |-> reset_state(cfg, st, cd.position, cd.direction), res |-> "Ok"]
    ELSE [st |-> st, res |-> cd.res]

perform_place(cfg, st, smp, position) ==
    PlaceAt(cfg, st, position, compute_direction(smp, position))

\* faulty variant: the callback is invoked whatever perform_place returned
PlaceCallback_eager(pl, term_at) ==
    [st |-> pl.st,
     res |-> IF pl.res = "Ok" /\ Callback(term_at, 1) = "Terminate"
             THEN "StoppedByCallback" ELSE pl.res,
     calls |-> <<StepperPoint(pl.st)>>]

\* the callback after perform_place
PlaceCallback(pl, term_at) ==
    IF pl.res = "Ok"
    THEN [st |-> pl.st,
          res |-> IF Callback(term_at, 1) = "Terminate"
                  THEN "StoppedByCallback" ELSE "Ok",
          calls |-> <<StepperPoint(pl.st)>>]
    ELSE [st |-> pl.st, res |-> pl.res, calls |-> << >>]

place_with_callback(cfg, st, smp, position, term_at) ==
    PlaceCallback(perform_place(cfg, st, smp, position), term_at)

----------------------------------------------------------------------------
(* One step: the retry loop *)

compute_error(attempt) ==
    IF ErrLeOne(attempt.error)
    THEN <<"Acceptable", attempt.error>>
    ELSE <<"TooLarge", attempt.error>>

\* faulty variant: the previous error does not enter the scale
AcceptedScale_classical(cfg, pi, error, new_error) ==
    IF ErrLtTiny(cfg, new_error) THEN Log2R(cfg.max_step_scale)
    ELSE Clamp(Log2R(cfg.safety_factor) - PowfExp(cfg, new_error, pi.k_p),
               Log2R(cfg.min_step_scale), Log2R(cfg.max_step_scale))

\* exponent of the step scale of an accepted attempt
AcceptedScale(cfg, pi, error, new_error) ==
    IF ErrLtTiny(cfg, new_error) THEN Log2R(cfg.max_step_scale)
    ELSE IF PowfIsZero(error, pi.k_i) THEN Log2R(cfg.min_step_scale)
    ELSE Clamp(Log2R(cfg.safety_factor) + PowfExp(cfg, error, pi.k_i)
                   - PowfExp(cfg, new_error, pi.k_p),
               Log2R(cfg.min_step_scale), Log2R(cfg.max_step_scale))

compute_step_size_accepted(cfg, st, new_error) ==
    Scale(st.step_size, AcceptedScale(cfg, PIControl(cfg), st.error, new_error))

\* faulty variant: the scale is not held at min_step_scale
RejectedScale_unclamped(cfg, pi, new_error) ==
    Log2R(cfg.safety_factor) - PowfExp(cfg, new_error, pi.k_p)

\* exponent of the step scale of a rejected attempt (new_error > 1)
RejectedScale(cfg, pi, new_error) ==
    Max(Log2R(cfg.safety_factor) - PowfExp(cfg, new_error, pi.k_p),
        Log2R(cfg.min_step_scale))

compute_step_size_rejected(cfg, st, new_error) ==
    Scale(st.step_size, RejectedScale(cfg, PIControl(cfg), new_error))

\* faulty variant: the threshold is compared with > instead of >=
check_for_sink_strict(cfg, st, attempt) ==
    IF Dot(attempt.next_direction, st.direction) < 0
    THEN <<st.n_sudden_reversals + 1 > cfg.sudden_reversals_for_sink,
           [st EXCEPT !.n_sudden_reversals = st.n_sudden_reversals + 1]>>
    ELSE <<FALSE, [st EXCEPT !.n_sudden_reversals = 0]>>

\* faulty variant: an attempt that does not reverse keeps the counter
check_for_sink_sticky(cfg, st, attempt) ==
    IF Dot(attempt.next_direction, st.direction) < 0
    THEN <<st.n_sudden_reversals + 1 >= cfg.sudden_reversals_for_sink,
           [st EXCEPT !.n_sudden_reversals = st.n_sudden_reversals + 1]>>
    ELSE <<FALSE, st>>

\* returns <<is sink, state>>: the counter is updated in place
check_for_sink(cfg, st, attempt) ==
    IF Dot(attempt.next_direction, st.direction) < 0
    THEN <<st.n_sudden_reversals + 1 >= cfg.sudden_reversals_for_sink,
           [st EXCEPT !.n_sudden_reversals = st.n_sudden_reversals + 1]>>
    ELSE <<FALSE, [st EXCEPT !.n_sudden_reversals = 0]>>

apply_step_attempt(st, attempt) ==
    [st EXCEPT !.previous_position = st.position,
               !.previous_direction = st.direction,
               !.position = attempt.next_position,
               !.direction = attempt.next_direction,
               !.distance = st.distance + st.step_size,
               !.intermediate_directions = attempt.intermediate_directions,
               !.previous_step_displacement = attempt.step_displacement,
               !.previous_step_wrapped = attempt.step_wrapped]

\* faulty variant: the step size is replaced before it is saved as the previous one
update_step_size_late(st, new_step_size, new_error) ==
    [st EXCEPT !.previous_step_size = new_step_size,
               !.step_size = new_step_size,
               !.error = new_error]

update_step_size(st, new_step_size, new_error) ==
    [st EXCEPT !.previous_step_size = st.step_size,
               !.step_size = new_step_size,
               !.error = new_error]

\* the value returned after the while loop
AfterLoop(cfg, attempts) ==
    IF attempts < cfg.max_step_attempts THEN "Ok" ELSE "TooManyAttempts"

\* what the loop reports: the new state, the result, the attempts counted,
\* the state in which the last attempt was made, whether it was committed
Looped(st, res, attempts, before, committed) ==
    [st |-> st, res |-> res, attempts |-> attempts, before |-> before,
     committed |-> committed]

\* faulty variant: the step size of a retry is not capped
CapStepSize_free(n, step_size, new_step_size) == new_step_size

\* "Don't increase step size if the previous attempt was rejected"
CapStepSize(n, step_size, new_step_size) ==
    IF n > 1 /\ new_step_size > step_size THEN step_size ELSE new_step_size

\* faulty variant: the attempt is applied before the sink check
Accept_commit_first(cfg, st, step_attempt, new_error, n, new_step_size, sink) ==
    Looped(update_step_size(apply_step_attempt(sink[2], step_attempt),
                            new_step_size, new_error),
           IF sink[1] THEN "Sink" ELSE AfterLoop(cfg, n), n, st, ~sink[1])

\* the sink check, then apply_step_attempt, update_step_size and break
Accept(cfg, st, step_attempt, new_error, n, new_step_size, sink) ==
    IF sink[1]
    THEN Looped(sink[2], "Sink", n, st, FALSE)
    ELSE Looped(update_step_size(apply_step_attempt(sink[2], step_attempt),
                                 new_step_size, new_error),
                AfterLoop(cfg, n), n, st, TRUE)

\* the arm StepError::Acceptable of the loop body, for attempt number n
AcceptAttempt(cfg, st, step_attempt, new_error, n) ==
    Accept(cfg, st, step_attempt, new_error, n,
           CapStepSize(n, st.step_size,
                       compute_step_size_accepted(cfg, st, new_error)),
           check_for_sink(cfg, st, step_attempt))

\* the arm StepError::TooLarge of the loop body
RejectAttempt(cfg, st, new_error) ==
    update_step_size(st, compute_step_size_rejected(cfg, st, new_error), new_error)

\* outs[k] is what attempt_step returns in the k-th iteration of the loop
RECURSIVE StepLoop(_, _, _, _)
StepLoop(cfg, st, outs, attempts) ==
    IF ~(attempts < cfg.max_step_attempts) THEN
        Looped(st, AfterLoop(cfg, attempts), attempts, st, FALSE)
    ELSE IF outs[attempts + 1].res # "Ok" THEN
        Looped(st, outs[attempts + 1].res, attempts, st, FALSE)
    ELSE IF compute_error(outs[attempts + 1].attempt)[1] = "Acceptable" THEN
        AcceptAttempt(cfg, st, outs[attempts + 1].attempt,
                      outs[attempts + 1].attempt.error, attempts + 1)
    ELSE
        StepLoop(cfg, RejectAttempt(cfg, st, outs[attempts + 1].attempt.error),
                 outs, attempts + 1)

perform_step(cfg, st, outs) == StepLoop(cfg, st, outs, 0)

\* faulty variant: the callback is invoked whatever perform_step returned
StepCallback_eager(ps, term_at) ==
    [ps EXCEPT !.res = IF ps.res = "Ok" /\ Callback(term_at, 1) = "Terminate"
                       THEN "StoppedByCallback" ELSE ps.res]
    @@ [calls |-> <<StepperPoint(ps.st)>>, assert_ok |-> TRUE]

\* faulty variant: the callback gets the position before the step
StepCallback_stale(ps, term_at) ==
    IF ps.res = "Ok"
    THEN [ps EXCEPT !.res = IF Callback(term_at, 1) = "Terminate"
                             THEN "StoppedByCallback" ELSE "Ok"]
         @@ [calls |-> <<StepperPoint(ps.before)>>, assert_ok |-> TRUE]
    ELSE ps @@ [calls |-> << >>, assert_ok |-> TRUE]

\* the callback after perform_step
StepCallback(ps, term_at) ==
    IF ps.res = "Ok"
    THEN [ps EXCEPT !.res = IF Callback(term_at, 1) = "Terminate"
                             THEN "StoppedByCallback" ELSE "Ok"]
         @@ [calls |-> <<StepperPoint(ps.st)>>, assert_ok |-> TRUE]
    ELSE ps @@ [calls |-> << >>, assert_ok |-> TRUE]

step_with_callback(cfg, st, outs, term_at) ==
    StepCallback(perform_step(cfg, st, outs), term_at)

----------------------------------------------------------------------------
(* Dense output *)

\* interpolate_dense_position of the last step at the fraction
\* (target - previous_distance) / previous_step_size
DensePoint(st, target, previous_distance) ==
    [pos |-> st.previous_position, dist |-> target, dense |-> TRUE,
     fraction |-> <<target - previous_distance, st.previous_step_size>>,
     coefs |-> st.intermediate_directions]

Emitted(st, res, calls) == [st |-> st, res |-> res, calls |-> calls]

\* faulty variant: the instruction returned by the callback is ignored
RECURSIVE DenseLoop_deaf(_, _, _, _, _, _)
DenseLoop_deaf(cfg, st, previous_distance, next_output_distance, calls, term_at) ==
    IF st.distance < next_output_distance + Units(cfg.dense_step_size) THEN
        Emitted([st EXCEPT !.next_output_distance =
                     next_output_distance + Units(cfg.dense_step_size)],
                "Ok",
                Append(calls, DensePoint(st, next_output_distance, previous_distance)))
    ELSE DenseLoop_deaf(cfg, st, previous_distance,
                   next_output_distance + Units(cfg.dense_step_size),
                   Append(calls, DensePoint(st, next_output_distance, previous_distance)),
                   term_at)

\* faulty variant: the loop goes on until the sample after the next is past
\* the stepper's distance
RECURSIVE DenseLoop_overrun(_, _, _, _, _, _)
DenseLoop_overrun(cfg, st, previous_distance, next_output_distance, calls, term_at) ==
    IF Callback(term_at, Len(calls) + 1) = "Terminate" THEN
        Emitted(st, "StoppedByCallback",
                Append(calls, DensePoint(st, next_output_distance, previous_distance)))
    ELSE IF st.distance < next_output_distance THEN
        Emitted([st EXCEPT !.next_output_distance =
                     next_output_distance + Units(cfg.dense_step_size)],
                "Ok",
                Append(calls, DensePoint(st, next_output_distance, previous_distance)))
    ELSE DenseLoop_overrun(cfg, st, previous_distance,
                   next_output_distance + Units(cfg.dense_step_size),
                   Append(calls, DensePoint(st, next_output_distance, previous_distance)),
                   term_at)

\* `calls` are the positions handed to the callback so far
RECURSIVE DenseLoop(_, _, _, _, _, _)
DenseLoop(cfg, st, previous_distance, next_output_distance, calls, term_at) ==
    IF Callback(term_at, Len(calls) + 1) = "Terminate" THEN
        Emitted(st, "StoppedByCallback",
                Append(calls, DensePoint(st, next_output_distance, previous_distance)))
    ELSE IF st.distance < next_output_distance + Units(cfg.dense_step_size) THEN
        Emitted([st EXCEPT !.next_output_distance =
                     next_output_distance + Units(cfg.dense_step_size)],
                "Ok",
                Append(calls, DensePoint(st, next_output_distance, previous_distance)))
    ELSE DenseLoop(cfg, st, previous_distance,
                   next_output_distance + Units(cfg.dense_step_size),
                   Append(calls, DensePoint(st, next_output_distance, previous_distance)),
                   term_at)

\* the debug assertions at the start of compute_dense_output
DenseAssertions(st) ==
    /\ st.previous_step_size # 0
    /\ st.next_output_distance > st.distance - st.previous_step_size

\* faulty variant: the next due distance is not stored back into the state
compute_dense_output_forgetful(cfg, st, term_at) ==
    IF st.next_output_distance <= st.distance
    THEN Emitted(st, DenseLoop(cfg, st, st.distance - st.previous_step_size,
                               st.next_output_distance, << >>, term_at).res,
                 DenseLoop(cfg, st, st.distance - st.previous_step_size,
                           st.next_output_distance, << >>, term_at).calls)
    ELSE Emitted(st, "Ok", << >>)

compute_dense_output(cfg, st, term_at) ==
    IF st.next_output_distance <= st.distance
    THEN DenseLoop(cfg, st, st.distance - st.previous_step_size,
                   st.next_output_distance, << >>, term_at)
    ELSE Emitted(st, "Ok", << >>)

\* faulty variant: the result of the dense output is dropped
WithDense_swallow(ps, d, assert_ok) ==
    [ps EXCEPT !.st = d.st]
    @@ [calls |-> d.calls, assert_ok |-> assert_ok]

\* the result of the step with that of the dense output after it
WithDense(ps, d, assert_ok) ==
    [ps EXCEPT !.st = d.st, !.res = d.res]
    @@ [calls |-> d.calls, assert_ok |-> assert_ok]

DenseAfter(cfg, ps, term_at) ==
    IF ps.res = "Ok"
    THEN WithDense(ps, compute_dense_output(cfg, ps.st, term_at),
                   DenseAssertions(ps.st))
    ELSE ps @@ [calls |-> << >>, assert_ok |-> TRUE]

step_with_callback_dense_output(cfg, st, outs, term_at) ==
    DenseAfter(cfg, perform_step(cfg, st, outs), term_at)

----------------------------------------------------------------------------
(* Inputs: what the field sampler, the grid and the scheme return *)

StartPositions == {3}

PlaceSamples ==
    { [first |-> SampleOk(<<2, 0>>), wrap |-> NoWrap, second |-> SampleOutOfBounds],
      [first |-> SampleOk(<<-3, 0>>), wrap |-> NoWrap, second |-> SampleOutOfBounds],
      [first |-> SampleOk(<<0, 0>>), wrap |-> NoWrap, second |-> SampleOutOfBounds],
      [first |-> SampleOutOfBounds, wrap |-> NoWrap, second |-> SampleOutOfBounds],
      [first |-> SampleOutOfBounds, wrap |-> WrapTo(4),
       second |-> SampleOk(<<2, 0>>)],
      [first |-> SampleOutOfBounds, wrap |-> WrapTo(4),
       second |-> SampleOk(<<0, 0>>)],
      [first |-> SampleOutOfBounds, wrap |-> WrapTo(4),
       second |-> SampleOutOfBounds] }

MkAttempt(p, d, w, e) ==
    [next_position |-> p, next_direction |-> d,
     intermediate_directions |-> <<d>>, step_displacement |-> d,
     step_wrapped |-> w, error |-> e]

TooLargeErrors == {Err(-1)}

AcceptableAttempts ==
    { MkAttempt(1, East, FALSE, Err(1)),
      MkAttempt(2, West, TRUE, Err(0)),
      MkAttempt(0, North, FALSE, ErrZero) }

RejectedAttempts == { MkAttempt(1, East, FALSE, e) : e \in TooLargeErrors }

AttemptOk(a) == [res |-> "Ok", attempt |-> a]
AttemptStopped(cause) == [res |-> cause, attempt |-> MkAttempt(0, VecZero, FALSE, ErrZero)]

FinalOutcomes ==
    { AttemptOk(a) : a \in AcceptableAttempts }
    \cup { AttemptStopped(c) : c \in {"Null", "OutOfBounds"} }

RejectedRuns(r) == [1..r -> { AttemptOk(a) : a \in RejectedAttempts }]

\* Every run of the retry loop: r rejected attempts, then (when the budget is
\* not used up) an attempt that ends the loop.
StepOutcomes(cfg) ==
    UNION { { rej \o <<f>> : rej \in RejectedRuns(r), f \in FinalOutcomes } :
               r \in 0..(cfg.max_step_attempts - 1) }
    \cup RejectedRuns(cfg.max_step_attempts)

----------------------------------------------------------------------------
(* What a call did, read off its inputs *)

IsRejected(out) == out.res = "Ok" /\ ~ErrLeOne(out.attempt.error)
IsAcceptable(out) == out.res = "Ok" /\ ErrLeOne(out.attempt.error)
\* the attempt that ended the loop (the attempts before it were rejected)
Final(outs) == outs[Len(outs)]
AllRejected(outs) == \A k \in 1..Len(outs) : IsRejected(outs[k])
Reverses(out, st) == Dot(out.attempt.next_direction, st.direction) < 0

IsStep(call) == call.op \in {"step", "step_dense"}
Succeeded(call) == call.res \in {"Ok", "StoppedByCallback"}
\* the callback returned Terminate during the call
Terminated(call) == call.term_at \in 1..Len(call.calls)

----------------------------------------------------------------------------
(* The stepper used directly: place, step, step_dense_output (Stepper3)   *)

NoCall(st) ==
    [op |-> "none", pre |-> st, res |-> "Ok", calls |-> << >>, term_at |-> 0,
     attempts |-> 0, before |-> st, committed |-> FALSE,
     assert_ok |-> TRUE, start |-> 0, smp |-> << >>, outs |-> << >>,
     live |-> FALSE, n_before |-> 0, run_before |-> 0]

PlaceCall(st, r, start, smp, term_at) ==
    [op |-> "place", pre |-> st, res |-> r.res, calls |-> r.calls,
     term_at |-> term_at, attempts |-> 0, before |-> st, committed |-> FALSE,
     assert_ok |-> TRUE, start |-> start, smp |-> smp, outs |-> << >>,
     live |-> live, n_before |-> 0, run_before |-> rev_run]

StepCall(op, st, r, outs, term_at) ==
    [op |-> op, pre |-> st, res |-> r.res, calls |-> r.calls,
     term_at |-> term_at, attempts |-> r.attempts, before |-> r.before,
     committed |-> r.committed, assert_ok |-> r.assert_ok,
     start |-> 0, smp |-> << >>, outs |-> outs,
     live |-> live, n_before |-> Len(trajectory), run_before |-> rev_run]

\* consecutive acceptable attempts that reversed the direction, counted
\* from what attempt_step returned
RunAfter(run, st, outs) ==
    IF IsAcceptable(Final(outs))
    THEN IF Reverses(Final(outs), st) THEN run + 1 ELSE 0
    ELSE run

\* r is what place_with_callback returned
DoPlace(r, start, smp, term_at) ==
    /\ term_at <= Len(r.calls)
    /\ state' = r.st
    /\ last' = PlaceCall(state, r, start, smp, term_at)
    /\ trajectory' = r.calls
    /\ placed' = (placed \/ Succeeded(r))
    /\ live' = (r.res = "Ok")
    /\ rev_run' = IF Succeeded(r) THEN 0 ELSE rev_run
    /\ n_calls' = n_calls + 1
    /\ UNCHANGED parvars

\* r is what step_with_callback or step_with_callback_dense_output returned
DoStep(op, r, outs, term_at) ==
    /\ term_at <= Len(r.calls)
    /\ state' = r.st
    /\ last' = StepCall(op, state, r, outs, term_at)
    /\ trajectory' = trajectory \o r.calls
    /\ live' = (live /\ r.res = "Ok")
    /\ rev_run' = RunAfter(rev_run, state, outs)
    /\ n_calls' = n_calls + 1
    /\ UNCHANGED <<placed, tasks, steppers, collected>>

Place ==
    /\ pc = "api"
    /\ n_calls < MaxCalls
    /\ \E start \in StartPositions, smp \in PlaceSamples, term_at \in {0, 1} :
         \E r \in {place_with_callback(config, state, smp, start, term_at)} :
            /\ DoPlace(r, start, smp, term_at)
            /\ pc' = IF r.res = "Panic" THEN "aborted" ELSE "api"
    /\ UNCHANGED <<config, tracer_result>>

Step ==
    /\ pc = "api"
    /\ placed
    /\ n_calls < MaxCalls
    /\ \E outs \in StepOutcomes(config), term_at \in {0, 1} :
         \E r \in {step_with_callback(config, state, outs, term_at)} :
            DoStep("step", r, outs, term_at)
    /\ UNCHANGED <<config, pc, tracer_result>>

StepDense ==
    /\ pc = "api"
    /\ placed
    /\ n_calls < MaxCalls
    /\ \E outs \in StepOutcomes(config), term_at \in 0..MaxTermAt :
         \E r \in {step_with_callback_dense_output(config, state, outs, term_at)} :
            DoStep("step_dense", r, outs, term_at)
    /\ UNCHANGED <<config, pc, tracer_result>>

----------------------------------------------------------------------------
(* The tracing driver: place, then dense steps until Stopped               *)

TracerOk(cause) == <<"Ok", cause>>
TracerVoid == <<"Void">>
TracerNone == <<"None">>

\* nothing gathered yet
NoneCollected == [lines |-> << >>, result |-> <<"Unset">>]

\* the driver's answer to the result of place
TracePlaceResult(res) ==
    IF res = "Ok" THEN TracerNone
    ELSE IF res = "StoppedByCallback" THEN TracerOk(res)
    ELSE TracerVoid

TracePlace ==
    /\ pc = "trace_start"
    /\ n_calls < MaxCalls
    /\ \E start \in StartPositions, smp \in PlaceSamples, term_at \in {0, 1} :
         \E r \in {place_with_callback(config, state, smp, start, term_at)} :
            /\ DoPlace(r, start, smp, term_at)
            /\ IF r.res = "Panic"
               THEN pc' = "aborted" /\ UNCHANGED tracer_result
               ELSE /\ tracer_result' = TracePlaceResult(r.res)
                    /\ pc' = IF r.res = "Ok" THEN "trace_loop" ELSE "trace_done"
    /\ UNCHANGED config

TraceStep ==
    /\ pc = "trace_loop"
    /\ n_calls < MaxCalls
    /\ \E outs \in StepOutcomes(config), term_at \in 0..MaxTermAt :
         \E r \in {step_with_callback_dense_output(config, state, outs, term_at)} :
            /\ DoStep("step_dense", r, outs, term_at)
            /\ IF r.res = "Ok"
               THEN UNCHANGED <<pc, tracer_result>>
               ELSE tracer_result' = TracerOk(r.res) /\ pc' = "trace_done"
    /\ UNCHANGED config

----------------------------------------------------------------------------

Init ==
    /\ config \in { cfg \in Configs : validate(cfg) }
    /\ state = NewState(config)
    /\ placed = FALSE
    /\ live = FALSE
    /\ rev_run = 0
    /\ pc \in {"api", "trace_start"}
    /\ tracer_result = TracerNone
    /\ trajectory = << >>
    /\ last = NoCall(state)
    /\ n_calls = 0
    /\ tasks = << >>
    /\ steppers = << >>
    /\ collected = NoneCollected

Next == Place \/ Step \/ StepDense \/ TracePlace \/ TraceStep

Spec == Init /\ [][Next]_vars

----------------------------------------------------------------------------
(* A trace of any length.  The stepper reads distance and                  *)
(* next_output_distance through their differences with each other and with *)
(* previous_step_size only (compute_dense_output), so its behaviour is the  *)
(* same when both are shifted by the same amount.  Here they are kept       *)
(* relative to the stepper's distance after each call, trajectory holds the *)
(* points of the last call only and calls are not counted: a trace that     *)
(* goes on forever is a cycle of finitely many states.                      *)

Rebase(st) ==
    [st EXCEPT !.distance = 0,
               !.next_output_distance = st.next_output_distance - st.distance]

StepSizeFollowed(cfg, step_size) ==
    /\ Scale(Units(cfg.initial_step_size), -MaxStepDoublings) <= step_size
    /\ step_size <= Scale(Units(cfg.initial_step_size), MaxStepDoublings)

\* one iteration of the driver's loop
LiveStep ==
    /\ pc = "trace_loop"
    /\ \E outs \in StepOutcomes(config), term_at \in 0..MaxTermAt :
         \E r \in {step_with_callback_dense_output(config, state, outs, term_at)} :
            /\ term_at <= Len(r.calls)
            /\ StepSizeFollowed(config, r.st.step_size)
            /\ state' = Rebase(r.st)
            /\ last' = StepCall("step_dense", state, r, outs, term_at)
            /\ trajectory' = r.calls
            /\ live' = (live /\ r.res = "Ok")
            /\ rev_run' = RunAfter(rev_run, state, outs)
            /\ IF r.res = "Ok"
               THEN UNCHANGED <<pc, tracer_result>>
               ELSE tracer_result' = TracerOk(r.res) /\ pc' = "trace_done"
    /\ UNCHANGED <<config, placed, n_calls, tasks, steppers, collected>>

LiveInit ==
    /\ config \in { cfg \in Configs : validate(cfg) }
    /\ state = NewState(config)
    /\ placed = FALSE
    /\ live = FALSE
    /\ rev_run = 0
    /\ pc = "trace_start"
    /\ tracer_result = TracerNone
    /\ trajectory = << >>
    /\ last = NoCall(state)
    /\ n_calls = 0
    /\ tasks = << >>
    /\ steppers = << >>
    /\ collected = NoneCollected

LiveNext == TracePlace \/ LiveStep

\* the driver is a sequential loop: it always makes its next call
LiveSpec ==
    LiveInit /\ [][LiveNext]_vars /\ WF_vars(TracePlace) /\ WF_vars(LiveStep)

----------------------------------------------------------------------------
(* Sets of traces.  The field along one trace and the answers of its       *)
(* callback are a script: what the sampler returns at the start position,  *)
(* whether the callback terminates there, and for the k-th step call what  *)
(* attempt_step returns and when the callback terminates.  Past the end of *)
(* the script the field is zero.                                           *)

Script(smp, place_term, steps) ==
    [start |-> 3, smp |-> smp, place_term |-> place_term, steps |-> steps]

ScriptedCall(outs, term_at) == [outs |-> outs, term_at |-> term_at]

CallOf(script, k) ==
    IF k <= Len(script.steps) THEN script.steps[k]
    ELSE ScriptedCall(<<AttemptStopped("Null")>>, 0)

InsideEast ==
    [first |-> SampleOk(<<2, 0>>), wrap |-> NoWrap, second |-> SampleOutOfBounds]

Scripts ==
    { Script([first |-> SampleOk(<<0, 0>>), wrap |-> NoWrap,
              second |-> SampleOutOfBounds], 0, << >>),
      Script([first |-> SampleOutOfBounds, wrap |-> WrapTo(4),
              second |-> SampleOutOfBounds], 0, << >>),
      Script(InsideEast, 1, << >>),
      Script(InsideEast, 0,
             <<ScriptedCall(<<AttemptOk(MkAttempt(2, West, TRUE, Err(0)))>>, 0),
               ScriptedCall(<<AttemptOk(MkAttempt(1, East, FALSE, Err(1)))>>, 2)>>),
      Script([first |-> SampleOutOfBounds, wrap |-> WrapTo(4),
              second |-> SampleOk(<<-3, 0>>)], 0,
             <<ScriptedCall(<<AttemptOk(MkAttempt(1, East, FALSE, Err(-1))),
                              AttemptOk(MkAttempt(0, North, FALSE, ErrZero))>>, 1)>>) }

Traced(result, points) == [result |-> result, trajectory |-> points]
TracerPanic == <<"Panic">>

\* the driver's loop on the stepper state st, from the k-th step call on
RECURSIVE RunSteps(_, _, _, _, _)
RECURSIVE StepsAfter(_, _, _, _, _)
StepsAfter(cfg, script, k, points, r) ==
    IF r.res = "Ok"
    THEN RunSteps(cfg, script, r.st, k + 1, points \o r.calls)
    ELSE Traced(TracerOk(r.res), points \o r.calls)

RunSteps(cfg, script, st, k, points) ==
    StepsAfter(cfg, script, k, points,
               step_with_callback_dense_output(cfg, st, CallOf(script, k).outs,
                                               CallOf(script, k).term_at))

\* the driver after place returned r
PlaceAfter(cfg, script, r) ==
    IF r.res = "Ok" THEN RunSteps(cfg, script, r.st, 1, r.calls)
    ELSE IF r.res = "Panic" THEN Traced(TracerPanic, << >>)
    ELSE Traced(TracePlaceResult(r.res), r.calls)

\* a whole trace with the stepper st
RunTraceFrom(cfg, st, script) ==
    PlaceAfter(cfg, script,
               place_with_callback(cfg, st, script.smp, script.start,
                                   script.place_term))

\* a whole trace with a stepper of its own
RunTrace(cfg, script) == RunTraceFrom(cfg, NewState(cfg), script)

\* StepperFactory3::produce: the index of a new stepper
produce(produced) == Len(produced) + 1

\* Distribution::propagate: what the distribution deposits on its way to
\* the point, and where; a function of the point handed to the closure
propagate(p) ==
    [deposited_power_density |-> p.dist + 1,
     deposition_position |-> <<p.pos, p.dist, 0>>]

\* a task of the swarm; `trajectory` is the sequence of the points its
\* closure was invoked with, trajectory_x, trajectory_y, trajectory_z the
\* three vectors of generate's local `trajectory`
NewTask(script) ==
    [script |-> script, pc |-> "new", stepper |-> 0, k |-> 0,
     trajectory |-> << >>, tracer_result |-> TracerNone, beam |-> << >>,
     trajectory_x |-> << >>, trajectory_y |-> << >>, trajectory_z |-> << >>,
     deposited_power_densities |-> << >>, total_propagation_distance |-> 0]

\* all sequences of 1..MaxSeeds tasks
TaskLists ==
    UNION { [1..n -> { NewTask(sc) : sc \in Scripts }] : n \in 1..MaxSeeds }

----------------------------------------------------------------------------
(* ElectronBeamSwarm::generate_propagated: the distributions are traced    *)
(* by parallel tasks.                                                      *)

\* faulty variant: the tasks push to the accumulators of the first task
record_points_shared(tsk, i, points) ==
    [tsk EXCEPT ![1].trajectory = tsk[1].trajectory \o points]

\* the callback closure of generate, for each point it is invoked with:
\* it pushes to the accumulators of its task
record_points(tsk, i, points) ==
    [tsk EXCEPT
        ![i].trajectory = tsk[i].trajectory \o points,
        ![i].trajectory_x = @ \o [k \in 1..Len(points) |->
                                    propagate(points[k]).deposition_position[1]],
        ![i].trajectory_y = @ \o [k \in 1..Len(points) |->
                                    propagate(points[k]).deposition_position[2]],
        ![i].trajectory_z = @ \o [k \in 1..Len(points) |->
                                    propagate(points[k]).deposition_position[3]],
        ![i].deposited_power_densities =
            @ \o [k \in 1..Len(points) |->
                      propagate(points[k]).deposited_power_density],
        ![i].total_propagation_distance =
            IF points = << >> THEN @ ELSE points[Len(points)].dist]

\* the closure handed to filter_map is entered: a stepper is produced and
\* generate sets up its accumulators
TaskStart(i) ==
    /\ pc = "swarm"
    /\ tasks[i].pc = "new"
    /\ steppers' = Append(steppers, NewState(config))
    /\ tasks' = [tasks EXCEPT ![i].pc = "place",
                              ![i].stepper = produce(steppers),
                              ![i].trajectory = << >>,
                              ![i].trajectory_x = << >>,
                              ![i].trajectory_y = << >>,
                              ![i].trajectory_z = << >>,
                              ![i].deposited_power_densities = << >>,
                              ![i].total_propagation_distance = 0]
    /\ UNCHANGED <<config, state, placed, live, rev_run, pc, tracer_result,
                   trajectory, last, n_calls, collected>>

TaskPlaced(i, r) ==
    /\ steppers' = [steppers EXCEPT ![tasks[i].stepper] = r.st]
    /\ tasks' = [record_points(tasks, i, r.calls) EXCEPT
                    ![i].pc = IF r.res = "Ok" THEN "loop"
                              ELSE IF r.res = "Panic" THEN "aborted"
                              ELSE "traced",
                    ![i].k = 1,
                    ![i].tracer_result = IF r.res = "Panic" THEN TracerPanic
                                         ELSE TracePlaceResult(r.res)]
    /\ pc' = IF r.res = "Panic" THEN "aborted" ELSE pc

TaskPlace(i) ==
    /\ pc = "swarm"
    /\ tasks[i].pc = "place"
    /\ \E r \in {place_with_callback(config, steppers[tasks[i].stepper],
                                     tasks[i].script.smp, tasks[i].script.start,
                                     tasks[i].script.place_term)} :
          TaskPlaced(i, r)
    /\ UNCHANGED <<config, state, placed, live, rev_run, tracer_result,
                   trajectory, last, n_calls, collected>>

TaskStepped(i, r) ==
    /\ steppers' = [steppers EXCEPT ![tasks[i].stepper] = r.st]
    /\ tasks' = [record_points(tasks, i, r.calls) EXCEPT
                    ![i].pc = IF r.res = "Ok" THEN "loop" ELSE "traced",
                    ![i].k = tasks[i].k + 1,
                    ![i].tracer_result = IF r.res = "Ok" THEN TracerNone
                                         ELSE TracerOk(r.res)]

TaskStep(i) ==
    /\ pc = "swarm"
    /\ tasks[i].pc = "loop"
    /\ \E r \in {step_with_callback_dense_output(
                     config, steppers[tasks[i].stepper],
                     CallOf(tasks[i].script, tasks[i].k).outs,
                     CallOf(tasks[i].script, tasks[i].k).term_at)} :
          TaskStepped(i, r)
    /\ UNCHANGED <<config, state, placed, live, rev_run, pc, tracer_result,
                   trajectory, last, n_calls, collected>>

\* the PropagatedElectronBeam of a task
Beam(t) ==
    [trajectory |-> <<t.trajectory_x, t.trajectory_y, t.trajectory_z>>,
     total_propagation_distance |-> t.total_propagation_distance,
     deposited_power_densities |-> t.deposited_power_densities]

\* faulty variant: a beam is returned for a Void trace as well
Beam_of_void(t) == <<Beam(t)>>

\* Some(beam) or None
BeamOrNone(t) ==
    IF t.tracer_result = TracerVoid THEN << >> ELSE <<Beam(t)>>

\* generate returns Some(beam) or None
TaskReturn(i) ==
    /\ pc = "swarm"
    /\ tasks[i].pc = "traced"
    /\ tasks' = [tasks EXCEPT ![i].pc = "done",
                              ![i].beam = BeamOrNone(tasks[i])]
    /\ UNCHANGED <<config, state, placed, live, rev_run, pc, tracer_result,
                   trajectory, last, n_calls, steppers, collected>>

\* the beams of tasks 1..n, in the order of the distributions
RECURSIVE Beams(_, _)
Beams(tsk, n) == IF n = 0 THEN << >> ELSE Beams(tsk, n - 1) \o tsk[n].beam

\* from_par_iter: the properties of the swarm; element 0 of each
\* trajectory is indexed
Collected(beams) ==
    [lines |-> beams,
     result |-> <<"Swarm", Len(beams)>>,
     x0 |-> [k \in 1..Len(beams) |-> beams[k].trajectory[1][1]],
     y0 |-> [k \in 1..Len(beams) |-> beams[k].trajectory[2][1]],
     z0 |-> [k \in 1..Len(beams) |-> beams[k].trajectory[3][1]],
     total_propagation_distance |->
         [k \in 1..Len(beams) |-> beams[k].total_propagation_distance]]

\* collect: the swarm's properties, or the panic of indexing an empty
\* trajectory
SwarmCollect ==
    /\ pc = "swarm"
    /\ \A i \in 1..Len(tasks) : tasks[i].pc = "done"
    /\ \E beams \in {Beams(tasks, Len(tasks))} :
          IF \E k \in 1..Len(beams) : \E c \in 1..3 :
                beams[k].trajectory[c] = << >>
          THEN /\ collected' = [lines |-> beams, result |-> <<"Panic">>]
               /\ pc' = "aborted"
          ELSE /\ collected' = Collected(beams)
               /\ pc' = "swarm_done"
    /\ UNCHANGED <<config, state, placed, live, rev_run, tracer_result,
                   trajectory, last, n_calls, tasks, steppers>>

SwarmInit ==
    /\ config \in { cfg \in Configs : validate(cfg) }
    /\ state = NewState(config)
    /\ placed = FALSE
    /\ live = FALSE
    /\ rev_run = 0
    /\ pc = "swarm"
    /\ tracer_result = TracerNone
    /\ trajectory = << >>
    /\ last = NoCall(state)
    /\ n_calls = 0
    /\ tasks \in TaskLists
    /\ steppers = << >>
    /\ collected = NoneCollected

SwarmNext ==
    \/ \E i \in 1..Len(tasks) :
          TaskStart(i) \/ TaskPlace(i) \/ TaskStep(i) \/ TaskReturn(i)
    \/ SwarmCollect

SwarmSpec == SwarmInit /\ [][SwarmNext]_vars

----------------------------------------------------------------------------
(* FieldLineSet3::trace: the seeds are traced one after the other.         *)

\* faulty variant: the field line is kept whatever its trace returned
push_if_ok_always(lines, t) == Append(lines, t.trajectory)

\* `if let TracerResult::Ok(_) = field_line.trace(..) { field_lines.push(..) }`
push_if_ok(lines, t) ==
    IF t.result[1] = "Ok" THEN Append(lines, t.trajectory) ELSE lines

\* one iteration of the loop over the seeds; t is what the trace gave
SeedTraced(i, t) ==
    /\ tasks' = [tasks EXCEPT
                    ![i].pc = IF t.result = TracerPanic THEN "aborted" ELSE "done",
                    ![i].stepper = produce(steppers),
                    ![i].trajectory = t.trajectory,
                    ![i].tracer_result = t.result]
    /\ collected' = [collected EXCEPT !.lines = push_if_ok(collected.lines, t)]
    /\ pc' = IF t.result = TracerPanic THEN "aborted" ELSE "set_loop"

SetTraceSeed ==
    /\ pc = "set_loop"
    /\ Len(steppers) < Len(tasks)
    /\ steppers' = Append(steppers, NewState(config))
    /\ \E t \in {RunTraceFrom(config, NewState(config),
                              tasks[Len(steppers) + 1].script)} :
          SeedTraced(Len(steppers) + 1, t)
    /\ UNCHANGED <<config, state, placed, live, rev_run, tracer_result,
                   trajectory, last, n_calls>>

SetFinish ==
    /\ pc = "set_loop"
    /\ Len(steppers) = Len(tasks)
    /\ collected' = [collected EXCEPT
                        !.result = IF collected.lines = << >> THEN <<"None">>
                                   ELSE <<"Some", collected.lines>>]
    /\ pc' = "set_done"
    /\ UNCHANGED <<config, state, placed, live, rev_run, tracer_result,
                   trajectory, last, n_calls, tasks, steppers>>

SetInit ==
    /\ config \in { cfg \in Configs : validate(cfg) }
    /\ state = NewState(config)
    /\ placed = FALSE
    /\ live = FALSE
    /\ rev_run = 0
    /\ pc = "set_loop"
    /\ tracer_result = TracerNone
    /\ trajectory = << >>
    /\ last = NoCall(state)
    /\ n_calls = 0
    /\ tasks \in {<< >>} \cup TaskLists
    /\ steppers = << >>
    /\ collected = NoneCollected

SetNext == SetTraceSeed \/ SetFinish

SetSpec == SetInit /\ [][SetNext]_vars

----------------------------------------------------------------------------
(* Construction: the constructor of a stepper validates its configuration  *)
(* (a failed assertion panics) before anything is traced.                  *)

Construct ==
    /\ pc = "new"
    /\ pc' = IF validate(config) THEN "constructed" ELSE "aborted"
    /\ state' = NewState(config)
    /\ UNCHANGED <<config, placed, live, rev_run, tracer_result, trajectory,
                   last, n_calls, tasks, steppers, collected>>

ConfigInit ==
    /\ config \in CandidateConfigs
    /\ state = NewState(config)
    /\ placed = FALSE
    /\ live = FALSE
    /\ rev_run = 0
    /\ pc = "new"
    /\ tracer_result = TracerNone
    /\ trajectory = << >>
    /\ last = NoCall(state)
    /\ n_calls = 0
    /\ tasks = << >>
    /\ steppers = << >>
    /\ collected = NoneCollected

ConfigNext == Construct

ConfigSpec == ConfigInit /\ [][ConfigNext]_vars

----------------------------------------------------------------------------
(* Properties *)

\* C1: a step call returns TooManyAttempts only when each of its
\* max_step_attempts attempts was rejected, and then position, direction
\* and distance are as before the call; whenever the attempt that ends the
\* loop is acceptable and not a sink (also when it is attempt number
\* max_step_attempts) the step is committed and perform_step returns Ok.
C1_TooManyAttemptsOnlyWhenAllRejected ==
    IsStep(last) =>
        /\ last.res = "TooManyAttempts" =>
              /\ Len(last.outs) = config.max_step_attempts
              /\ AllRejected(last.outs)
              /\ state.position = last.pre.position
              /\ state.direction = last.pre.direction
              /\ state.distance = last.pre.distance
        /\ (IsAcceptable(Final(last.outs)) /\ last.res # "Sink") =>
              /\ last.committed
              /\ Succeeded(last)

\* C2: an accepted step advances distance by exactly the step size with
\* which the accepted attempt was made (a positive amount), which is also
\* previous_step_size afterwards; no other step call changes distance, and
\* place sets it to 0 (or leaves it, when it fails).
C2_DistanceAdvancesByUsedStepSize ==
    /\ (IsStep(last) /\ last.committed) =>
          /\ state.distance = last.pre.distance + last.before.step_size
          /\ last.pre.distance < state.distance
          /\ state.previous_step_size = last.before.step_size
    /\ (IsStep(last) /\ ~last.committed) => state.distance = last.pre.distance
    /\ last.op = "place" =>
          state.distance = IF Succeeded(last) THEN 0 ELSE last.pre.distance

\* an accepted step that followed a rejected attempt in the same call,
\* made with a step size other than the one the call started with
C2_Witness ==
    /\ IsStep(last) /\ last.committed /\ last.attempts >= 2
    /\ last.before.step_size # last.pre.step_size
    /\ state.step_size # last.before.step_size

\* C3: in a trace (a placement and the steps after it, up to the first
\* Stopped) the arc lengths of the dense output positions handed to the
\* callback increase strictly, consecutive ones exactly dense_step_size
\* apart, whatever the adaptive step sizes were.
DenseOutputs == SelectSeq(trajectory, LAMBDA p : p.dense)

C3_DenseOutputSpacing ==
    (last.op = "place" \/ (IsStep(last) /\ last.live)) =>
        \A i \in 1..(Len(DenseOutputs) - 1) :
            /\ DenseOutputs[i + 1].dist
                   = DenseOutputs[i].dist + Units(config.dense_step_size)
            /\ DenseOutputs[i].dist < DenseOutputs[i + 1].dist

\* a trace of dense steps only whose last step gave several samples, after
\* samples of an earlier step
C3_Witness ==
    /\ last.op = "step_dense" /\ last.live
    /\ Len(last.calls) >= 2
    /\ last.n_before >= 2
    /\ \A i \in 2..Len(trajectory) : trajectory[i].dense
    /\ state.step_size # state.previous_step_size

\* C4: when the callback returns Terminate on its n-th invocation of a
\* trace, the call returns StoppedByCallback, the callback is not invoked
\* again (neither for dense samples still due in that step nor, by the
\* driver, in a later call), and the trajectory has exactly n points.
C4_TerminateEndsTheCall ==
    Terminated(last) =>
        /\ last.res = "StoppedByCallback"
        /\ Len(last.calls) = last.term_at
        /\ Len(trajectory) = last.n_before + last.term_at
        /\ pc # "api" =>
              pc = "trace_done" /\ tracer_result = TracerOk("StoppedByCallback")

C4_CallbackTermination ==
    /\ [] C4_TerminateEndsTheCall
    /\ [][(pc # "api" /\ Terminated(last)) => trajectory' = trajectory]_vars

\* the driver's callback terminates on a dense sample while further samples
\* of the same step are due
C4_Witness ==
    /\ pc = "trace_done" /\ last.op = "step_dense" /\ Terminated(last)
    /\ last.term_at < Len(step_with_callback_dense_output(config, last.pre,
                                                            last.outs, 0).calls)
    /\ Len(trajectory) >= 3

\* C5: with N = sudden_reversals_for_sink, a step call returns Sink exactly
\* when its acceptable attempt reverses the direction and is the N-th (in a
\* trace: exactly the N-th) consecutive one to do so; a reversing attempt
\* that is committed is at most the (N-1)-th.
C5_SinkOnNthReversal ==
    IsStep(last) =>
        /\ last.res = "Sink" <=>
              /\ IsAcceptable(Final(last.outs))
              /\ Reverses(Final(last.outs), last.pre)
              /\ rev_run >= config.sudden_reversals_for_sink
        /\ (last.res = "Sink" /\ last.live) =>
              rev_run = config.sudden_reversals_for_sink
        /\ (last.committed /\ Reverses(Final(last.outs), last.pre)) =>
              rev_run < config.sudden_reversals_for_sink

\* the second of two consecutive reversals stops a trace with N = 2
C5_Witness ==
    /\ IsStep(last) /\ last.res = "Sink" /\ last.live
    /\ config.sudden_reversals_for_sink = 2
    /\ last.run_before = 1

\* C6: when a step call returns Sink, the attempt that triggered it is not
\* committed: position, direction, distance, the snapshot of the previous
\* step and the step size are those held before that attempt.
C6_SinkDoesNotCommit ==
    (IsStep(last) /\ last.res = "Sink") =>
        /\ state.position = last.before.position
        /\ state.direction = last.before.direction
        /\ state.distance = last.before.distance
        /\ state.previous_position = last.before.previous_position
        /\ state.previous_direction = last.before.previous_direction
        /\ state.intermediate_directions = last.before.intermediate_directions
        /\ state.step_size = last.before.step_size
        /\ state.previous_step_size = last.before.previous_step_size
        /\ state.position = last.pre.position
        /\ state.distance = last.pre.distance

\* a sink found on a retry, after a committed step
C6_Witness ==
    /\ IsStep(last) /\ last.res = "Sink" /\ last.attempts >= 2
    /\ last.pre.distance # 0
    /\ last.before.step_size # last.pre.step_size

\* C7: place has exactly three outcomes: Null when the field sampled at
\* the (possibly wrapped) position is zero, OutOfBounds when the start
\* position is outside the domain and has no wrapped counterpart, and
\* success otherwise, at the wrapped position when the start position is
\* outside the domain.
C7_PlaceOutcomes ==
    last.op = "place" =>
        LET outside == last.smp.first = SampleOutOfBounds
            has_wrap == last.smp.wrap # NoWrap
            sampled == IF outside THEN last.smp.second ELSE last.smp.first
            null == /\ (~outside \/ has_wrap)
                    /\ sampled[1] = "Ok"
                    /\ VecIsZero(sampled[2])
            oob == outside /\ ~has_wrap
        IN /\ last.res = "Null" <=> null
           /\ last.res = "OutOfBounds" <=> oob
           /\ (~null /\ ~oob) =>
                 /\ Succeeded(last)
                 /\ state.position = IF outside THEN last.smp.wrap[1]
                                     ELSE last.start

\* C8 as stated: on every successful placement the callback is handed the
\* start position that was passed to place.
C8_CallbackGetsStartPosition ==
    (last.op = "place" /\ Succeeded(last)) =>
        /\ Len(last.calls) = 1
        /\ last.calls[1].pos = last.start
        /\ trajectory[1].pos = last.start

\* C8 amended: on every successful placement the callback is invoked once,
\* with the position the stepper was placed at: the start position, or its
\* wrapped counterpart when the start position is outside the domain; that
\* is the first point of the trajectory.
C8_CallbackGetsPlacedPosition ==
    (last.op = "place" /\ Succeeded(last)) =>
        LET placed_at == IF last.smp.first = SampleOutOfBounds
                         THEN last.smp.wrap[1] ELSE last.start
        IN /\ Len(last.calls) = 1
           /\ last.calls[1].pos = placed_at
           /\ trajectory[1].pos = placed_at
           /\ state.position = placed_at

\* a placement that succeeded at the wrapped position
C8_Witness ==
    /\ last.op = "place" /\ Succeeded(last)
    /\ last.smp.first = SampleOutOfBounds
    /\ last.calls[1].pos # last.start

\* C9: whatever the sampler and the grid return, place and step return Ok
\* or Stopped with one of the five causes; they never panic.
StepperResults ==
    {"Ok", "Null", "Sink", "OutOfBounds", "TooManyAttempts", "StoppedByCallback"}

C9_TypedResultsOnly == last.res \in StepperResults /\ pc # "aborted"

\* C10: the driver returns Void exactly when placement stopped with Null or
\* OutOfBounds, and then the callback was not invoked and there is no
\* point; otherwise it returns Ok with the stopping cause, also when the
\* callback terminated at placement (a trajectory of one point).
C10_TracerResult ==
    /\ pc = "trace_done" =>
          IF last.op = "place"
          THEN /\ last.res \in {"Null", "OutOfBounds", "StoppedByCallback"}
               /\ last.res \in {"Null", "OutOfBounds"} =>
                     tracer_result = TracerVoid /\ trajectory = << >>
               /\ last.res = "StoppedByCallback" =>
                     /\ tracer_result = TracerOk("StoppedByCallback")
                     /\ Len(trajectory) = 1
          ELSE /\ last.op = "step_dense"
               /\ last.res # "Ok"
               /\ tracer_result = TracerOk(last.res)
               /\ Len(trajectory) >= 1
    /\ tracer_result = TracerVoid =>
          /\ pc = "trace_done" /\ last.op = "place"
          /\ last.res \in {"Null", "OutOfBounds"}
          /\ trajectory = << >>
    /\ pc \in {"trace_start", "trace_loop"} => tracer_result = TracerNone

\* a trace that the callback ended at placement
C10_Witness ==
    /\ pc = "trace_done" /\ last.op = "place"
    /\ tracer_result = TracerOk("StoppedByCallback")
    /\ Len(trajectory) = 1

\* C12: a step call makes at most max_step_attempts calls of attempt_step,
\* whatever the errors are, and the dense output after an accepted step is
\* finite: the samples are the due distance and its successors in steps of
\* dense_step_size > 0, none beyond the stepper's distance, and when the
\* loop ends the next due distance is beyond it.
AttemptStepCalls(call) ==
    call.attempts + (IF Final(call.outs).res = "Ok" THEN 0 ELSE 1)

C12_CallsAreBounded ==
    IsStep(last) =>
        /\ AttemptStepCalls(last) <= config.max_step_attempts
        /\ AttemptStepCalls(last) = Len(last.outs)
        /\ Units(config.dense_step_size) > 0
        /\ (last.op = "step_dense" /\ Succeeded(last)) =>
              /\ \A k \in 1..Len(last.calls) :
                    /\ last.calls[k].dist = last.pre.next_output_distance
                           + (k - 1) * Units(config.dense_step_size)
                    /\ last.calls[k].dist <= state.distance
              /\ last.res = "Ok" =>
                    /\ state.next_output_distance > state.distance
                    /\ state.next_output_distance = last.pre.next_output_distance
                           + Len(last.calls) * Units(config.dense_step_size)

\* a dense step of a longer trace that gave several samples
C12_Witness ==
    /\ last.op = "step_dense" /\ last.res = "Ok"
    /\ last.pre.distance # 0
    /\ Len(last.calls) >= 2

\* C13: a successful place leaves the stepper in the state a new stepper
\* would be in after the same place: every mutable field is a function of
\* the config, the start position and the sampled field only, and the
\* callback is handed the same point, whatever calls came before.
C13_PlaceResetsEverything ==
    (last.op = "place" /\ Succeeded(last)) =>
        /\ state = place_with_callback(config, NewState(config), last.smp,
                                       last.start, last.term_at).st
        /\ last.calls = place_with_callback(config, NewState(config), last.smp,
                                            last.start, last.term_at).calls
        /\ state.distance = 0
        /\ state.step_size = Units(config.initial_step_size)
        /\ state.error = config.initial_error
        /\ state.n_sudden_reversals = 0
        /\ state.previous_step_size = 0
        /\ state.previous_position = state.position
        /\ state.previous_direction = state.direction
        /\ state.intermediate_directions = << >>
        /\ state.next_output_distance = Units(config.dense_step_size)

\* a placement of a stepper that had stepped, reversed and adapted before
C13_Witness ==
    /\ last.op = "place" /\ Succeeded(last)
    /\ last.pre.distance # 0
    /\ last.pre.n_sudden_reversals > 0
    /\ last.pre.step_size # Units(config.initial_step_size)
    /\ last.pre.error # config.initial_error

\* C16: once place or a step call has returned Stopped, a later step call
\* without a new placement does not return Ok, commits no step and does not
\* invoke the callback.
C16_TerminalStatesAbsorbing ==
    (IsStep(last) /\ ~last.live) =>
        /\ last.res # "Ok"
        /\ ~last.committed
        /\ last.calls = << >>

\* C19: when attempt_step fails (zero field or out of bounds) the call
\* returns Stopped with that cause at once: the failed attempt is the last
\* one although the budget may not be used up, the callback is not invoked,
\* and position, direction and distance are as before the call.
C19_SamplingFailureStopsTheCall ==
    (IsStep(last) /\ Final(last.outs).res # "Ok") =>
        /\ last.res = Final(last.outs).res
        /\ last.attempts = Len(last.outs) - 1
        /\ ~last.committed
        /\ last.calls = << >>
        /\ Len(trajectory) = last.n_before
        /\ state.position = last.pre.position
        /\ state.direction = last.pre.direction
        /\ state.distance = last.pre.distance

\* a sampling failure after a committed step, with attempts to spare
C19_Witness ==
    /\ IsStep(last) /\ last.res = "OutOfBounds"
    /\ Len(last.outs) < config.max_step_attempts
    /\ last.pre.distance # 0

\* C20: a rejected attempt changes step_size and error only; every other
\* field, the snapshot of the last accepted step included, is as before.
C20_RejectionChangesStepSizeAndErrorOnly ==
    (IsStep(last) /\ last.attempts >= 1 /\ IsRejected(last.outs[1])) =>
        last.before = [last.pre EXCEPT !.step_size = last.before.step_size,
                                       !.error = last.before.error]

\* C14 as stated: the constructor rejects every configuration with a
\* tolerance (absolute or relative) or a step scale bound that is not
\* strictly positive, with max_step_scale < min_step_scale or with
\* sudden_reversals_for_sink < 1, and accepts every configuration that
\* satisfies all assertions of validate.
C14_RejectsNonPositiveTolerances ==
    pc # "new" =>
        /\ ( \/ ~RLt(RZero, config.absolute_tolerance)
             \/ ~RLt(RZero, config.relative_tolerance)
             \/ ~RLt(RZero, config.min_step_scale)
             \/ ~RLt(RZero, config.max_step_scale)
             \/ RLt(config.max_step_scale, config.min_step_scale)
             \/ config.sudden_reversals_for_sink < 1 ) => pc = "aborted"
        /\ validate(config) => pc = "constructed"

\* C14 amended: the constructor rejects every configuration with an
\* absolute tolerance or a step scale bound that is not strictly positive,
\* a negative relative tolerance (zero is accepted), max_step_scale <
\* min_step_scale or sudden_reversals_for_sink < 1; it accepts exactly the
\* configurations that satisfy all ten assertions of validate.
C14_ValidateRejectsInvalidConfigs ==
    pc # "new" =>
        /\ ( \/ ~RLt(RZero, config.absolute_tolerance)
             \/ RLt(config.relative_tolerance, RZero)
             \/ ~RLt(RZero, config.min_step_scale)
             \/ ~RLt(RZero, config.max_step_scale)
             \/ RLt(config.max_step_scale, config.min_step_scale)
             \/ config.sudden_reversals_for_sink < 1 ) => pc = "aborted"
        /\ pc = "constructed" <=>
              /\ RLt(RZero, config.dense_step_size)
              /\ config.max_step_attempts >= 1
              /\ RLt(RZero, config.absolute_tolerance)
              /\ ~RLt(config.relative_tolerance, RZero)
              /\ RLt(RZero, config.safety_factor)
              /\ ~RLt(ROne, config.safety_factor)
              /\ RLt(RZero, config.min_step_scale)
              /\ ~RLt(config.max_step_scale, config.min_step_scale)
              /\ RLt(RZero, config.initial_step_size)
              /\ config.initial_error \in {Err(0), Err(1)}
              /\ config.sudden_reversals_for_sink >= 1

\* a configuration with relative tolerance 0 was accepted
C14_Witness ==
    /\ pc = "constructed"
    /\ config.relative_tolerance = RZero
    /\ config.min_step_scale # config.max_step_scale

\* C15: the default configuration has min_step_scale <= max_step_scale and
\* passes validate, so a stepper is constructed from it.
C15_DefaultConfigIsValid ==
    (config = default(4) /\ pc # "new") =>
        /\ RLe(config.min_step_scale, config.max_step_scale)
        /\ pc = "constructed"

IsPrefix(p, q) == Len(p) <= Len(q) /\ p = SubSeq(q, 1, Len(p))

\* the task t against the trace of its distribution alone
C17_AsAlone(t, alone) ==
    /\ IsPrefix(t.trajectory, alone.trajectory)
    /\ t.pc \in {"traced", "done"} =>
          /\ t.trajectory = alone.trajectory
          /\ t.tracer_result = alone.result

\* C17: in a swarm every task has a stepper and a trajectory of its own; in
\* every interleaving the trajectory of a task grows along the trajectory
\* its distribution has when traced alone and ends equal to it, with the
\* same result, and number_of_beams is the number of distributions whose
\* trace did not return Void.
C17_BeamsAsTracedAlone ==
    pc \in {"swarm", "swarm_done"} =>
        /\ \A i \in 1..Len(tasks), j \in 1..Len(tasks) :
              (i # j /\ tasks[i].stepper # 0) => tasks[i].stepper # tasks[j].stepper
        /\ \A i \in 1..Len(tasks) :
              C17_AsAlone(tasks[i], RunTrace(config, tasks[i].script))
        /\ pc = "swarm_done" =>
              /\ collected.result
                    = <<"Swarm",
                        Cardinality({ i \in 1..Len(tasks) :
                            RunTrace(config, tasks[i].script).result # TracerVoid })>>
              /\ Len(collected.lines) = collected.result[2]

\* a swarm of a beam of several points and a distribution without a beam
C17_Witness ==
    /\ pc = "swarm_done"
    /\ Len(tasks) = 2
    /\ collected.result = <<"Swarm", 1>>
    /\ tasks[1].tracer_result = TracerVoid
    /\ Len(tasks[2].trajectory) >= 3

\* C18: FieldLineSet3::trace produces one stepper per seed and returns
\* Some(set) with exactly the field lines whose trace returned Ok, in the
\* order of the seeds, and None exactly when there is none (also without
\* seeds); a Void trace does not end the loop.
RECURSIVE OkLines(_)
OkLines(n) ==
    IF n = 0 THEN << >>
    ELSE OkLines(n - 1)
         \o (IF RunTrace(config, tasks[n].script).result[1] = "Ok"
             THEN <<RunTrace(config, tasks[n].script).trajectory>> ELSE << >>)

C18_FieldLineSetOfOkTraces ==
    /\ pc = "set_done" =>
          /\ Len(steppers) = Len(tasks)
          /\ \A i \in 1..Len(tasks) : tasks[i].stepper = i
          /\ collected.lines = OkLines(Len(tasks))
          /\ collected.result = IF OkLines(Len(tasks)) = << >> THEN <<"None">>
                                ELSE <<"Some", OkLines(Len(tasks))>>
    /\ pc = "set_loop" => collected.lines = OkLines(Len(steppers))

\* a set of one field line, traced after a seed whose trace was Void
C18_Witness ==
    /\ pc = "set_done"
    /\ Len(tasks) = 2
    /\ tasks[1].tracer_result = TracerVoid
    /\ collected.result[1] = "Some"
    /\ Len(collected.lines[1]) >= 3

\* the state after the first rejected attempt of a call in which exactly
\* one attempt was rejected is last.before
OneRejection(call) ==
    /\ IsStep(call) /\ call.attempts >= 1
    /\ IsRejected(call.outs[1])
    /\ Len(call.outs) >= 2 => ~IsRejected(call.outs[2])

\* safety_factor / new_error^k_p and min_step_scale, as exponents
C21_RejectedExponent(call) ==
    Log2R(config.safety_factor)
        - PowfExp(config, call.outs[1].attempt.error, PIControl(config).k_p)

\* C21 as stated: for every validated config a rejected attempt strictly
\* shrinks the step size: the next attempt uses
\* step_size * max(safety_factor / new_error^k_p, min_step_scale), which
\* is smaller and does not depend on the previous error.
C21_RejectionShrinksStepSize ==
    OneRejection(last) =>
        /\ last.before.step_size < last.pre.step_size
        /\ last.before.step_size
              = Scale(last.pre.step_size,
                      IF C21_RejectedExponent(last) < Log2R(config.min_step_scale)
                      THEN Log2R(config.min_step_scale)
                      ELSE C21_RejectedExponent(last))

\* max(safety_factor / new_error^k_p, min_step_scale), as an exponent
C21_RejectedScale(call) ==
    IF C21_RejectedExponent(call) < Log2R(config.min_step_scale)
    THEN Log2R(config.min_step_scale)
    ELSE C21_RejectedExponent(call)

\* C21 amended: after a rejected attempt the next attempt uses
\* step_size * max(safety_factor / new_error^k_p, min_step_scale), with no
\* dependence on the previous error; this is strictly smaller than
\* step_size for the configs accepted by validate that have
\* min_step_scale < 1, and not smaller for those with min_step_scale >= 1
\* (validate accepts them).
C21_RejectionScalesStepSize ==
    OneRejection(last) =>
        /\ last.before.step_size
              = Scale(last.pre.step_size, C21_RejectedScale(last))
        /\ RLt(config.min_step_scale, ROne)
              => last.before.step_size < last.pre.step_size
        /\ RLe(ROne, config.min_step_scale)
              => last.before.step_size >= last.pre.step_size

\* a rejected attempt whose scale is above min_step_scale, after a step
\* that left another error than the initial one
C21_Witness ==
    /\ OneRejection(last)
    /\ last.before.step_size > Scale(last.pre.step_size, Log2R(config.min_step_scale))
    /\ last.before.step_size < last.pre.step_size
    /\ last.pre.error # config.initial_error

\* a step call whose first attempt was accepted and committed
AcceptedFirst(call) ==
    IsStep(call) /\ call.committed /\ call.attempts = 1

\* safety_factor * previous_error^k_i / new_error^k_p as an exponent; the
\* previous error is the error field of the state the call started in
C22_Exponent(call) ==
    Log2R(config.safety_factor)
        + PowfExp(config, call.pre.error, PIControl(config).k_i)
        - PowfExp(config, call.outs[1].attempt.error, PIControl(config).k_p)

\* the product above is 0 when the previous error is 0 and k_i > 0
C22_ProductIsZero(call) ==
    call.pre.error = ErrZero /\ PIControl(config).k_i[1] > 0

\* new_error < 1e-9 (errors are 0 or 2^(-10 * order * m))
C22_Tiny(call) ==
    \/ call.outs[1].attempt.error = ErrZero
    \/ 10 * config.scheme_order * call.outs[1].attempt.error[1] >= 30

C22_Ratio(call) ==
    IF C22_Tiny(call) THEN Log2R(config.max_step_scale)
    ELSE IF C22_ProductIsZero(call) THEN Log2R(config.min_step_scale)
    ELSE IF C22_Exponent(call) < Log2R(config.min_step_scale)
         THEN Log2R(config.min_step_scale)
    ELSE IF C22_Exponent(call) > Log2R(config.max_step_scale)
         THEN Log2R(config.max_step_scale)
    ELSE C22_Exponent(call)

\* C22: for a step accepted on its first attempt the ratio of the next
\* step size to the step size just used lies in
\* [min_step_scale, max_step_scale]; it is max_step_scale when the new
\* error is below 1e-9 and else
\* safety_factor * previous_error^k_i / new_error^k_p clamped to that
\* interval.
C22_AcceptedStepScale ==
    AcceptedFirst(last) =>
        /\ state.previous_step_size = last.pre.step_size
        /\ state.step_size = Scale(state.previous_step_size, C22_Ratio(last))
        /\ Scale(state.previous_step_size, Log2R(config.min_step_scale))
              <= state.step_size
        /\ state.step_size
              <= Scale(state.previous_step_size, Log2R(config.max_step_scale))

\* the PI term decides: a ratio strictly inside the interval that differs
\* from the one of the classical control
C22_Witness ==
    /\ AcceptedFirst(last)
    /\ ~C22_Tiny(last)
    /\ Log2R(config.min_step_scale) < C22_Exponent(last)
    /\ C22_Exponent(last) < Log2R(config.max_step_scale)
    /\ PowfExp(config, last.pre.error, PIControl(config).k_i) # 0
    /\ state.step_size = Scale(last.pre.step_size, C22_Exponent(last))

\* C23: when a step is accepted after at least one rejected attempt of the
\* same call, the step size stored for the next step is not larger than
\* the step size of the accepted attempt; only a step accepted on the
\* first attempt may increase the step size.
C23_RetryNeverGrowsStepSize ==
    (IsStep(last) /\ last.committed) =>
        /\ state.previous_step_size = last.before.step_size
        /\ last.attempts > 1 => state.step_size <= last.before.step_size
        /\ state.step_size > last.before.step_size => last.attempts = 1

\* a retry accepted with an error below 1e-9 under max_step_scale > 1:
\* the scale alone would grow the step size
C23_Witness ==
    /\ IsStep(last) /\ last.committed /\ last.attempts > 1
    /\ IsRejected(last.outs[1])
    /\ Final(last.outs).attempt.error = ErrZero
    /\ RLt(ROne, config.max_step_scale)
    /\ state.step_size = last.before.step_size

\* C24 as stated: in every reachable state the error field is the
\* normalized error of the last accepted step (initial_error if none) and
\* lies in (0, 1]; rejected attempts leave it alone, so their error does
\* not enter the PI term of a later accepted attempt.
C24_ErrorOfLastAcceptedStep ==
    /\ ErrGtZero(state.error) /\ ErrLeOne(state.error)
    /\ last.op = "none" => state.error = config.initial_error
    /\ (IsStep(last) /\ last.committed)
          => /\ state.error = Final(last.outs).attempt.error
             /\ last.before.error = last.pre.error
    /\ (IsStep(last) /\ ~last.committed) => state.error = last.pre.error

\* C25 as stated: next_output_distance > distance - previous_step_size in
\* every state reachable by place, step and step_dense_output calls, so
\* the debug assertions at the start of compute_dense_output never fail,
\* also when plain step calls are mixed with dense ones.
C25_NextOutputDistanceAhead ==
    placed =>
        /\ state.next_output_distance
              > state.distance - state.previous_step_size
        /\ last.assert_ok

\* the multiples k * dense_step_size (k >= 1) in
\* (distance - previous_step_size, distance]
C26_DueMultiples(st) ==
    { k * Units(config.dense_step_size) :
        k \in { j \in 1..(st.distance \div Units(config.dense_step_size)) :
                  j * Units(config.dense_step_size)
                      > st.distance - st.previous_step_size } }

\* what the claim says of the positions a call handed to the callback and
\* of the state it left
C26_EmitsDueMultiples(call, st) ==
    /\ { call.calls[i].dist : i \in 1..Len(call.calls) } = C26_DueMultiples(st)
    /\ Len(call.calls) = Cardinality(C26_DueMultiples(st))
    /\ \A i \in 1..(Len(call.calls) - 1) :
          call.calls[i].dist < call.calls[i + 1].dist
    /\ \A i \in 1..Len(call.calls) :
          /\ call.calls[i].dense
          /\ call.calls[i].fraction
                = <<call.calls[i].dist - (st.distance - st.previous_step_size),
                    st.previous_step_size>>
          /\ 0 < call.calls[i].fraction[1]
          /\ call.calls[i].fraction[1] <= call.calls[i].fraction[2]
    /\ st.next_output_distance > st.distance
    /\ st.next_output_distance - Units(config.dense_step_size) <= st.distance
    /\ st.next_output_distance % Units(config.dense_step_size) = 0

\* C26 as stated: after an accepted step of a place/step_dense_output
\* trace that the callback does not terminate, dense output emits exactly
\* one position for each multiple of dense_step_size in
\* (distance - previous_step_size, distance], in increasing order, each at
\* a fraction in (0, 1] of the step, and next_output_distance is then the
\* smallest multiple above distance.
C26_DenseOutputComplete ==
    (pc # "api" /\ last.op = "step_dense" /\ last.committed
        /\ last.res # "StoppedByCallback")
      => C26_EmitsDueMultiples(last, state)

\* the same for the accepted steps after which step_dense_output returned Ok
C26_DenseOutputCompleteWhenOk ==
    (pc # "api" /\ last.op = "step_dense" /\ last.res = "Ok")
      => C26_EmitsDueMultiples(last, state)

\* one invocation, after the state was updated, with the new position
C27_CalledOnceWithNewPosition(call, st) ==
    /\ Len(call.calls) = 1
    /\ call.calls[1] = StepperPoint(st)
    /\ call.calls[1].pos = st.position

\* C27: place and the non-dense step invoke the callback exactly once per
\* call in which the placement or the step succeeded (the call returns Ok,
\* or StoppedByCallback when the callback says so), after the state was
\* updated and with the new current position, and never in a call that
\* ends with Null, OutOfBounds, Sink or TooManyAttempts; rejected attempts
\* never reach the callback.
C27_CallbackOncePerSuccess ==
    /\ (last.op \in {"place", "step"} /\ Succeeded(last))
          => C27_CalledOnceWithNewPosition(last, state)
    /\ (last.op \in {"place", "step"}
          /\ last.res \in {"Null", "OutOfBounds", "Sink", "TooManyAttempts"})
          => last.calls = << >>
    /\ (last.op = "step" /\ last.res = "Ok")
          => /\ last.committed
             /\ state.distance = last.pre.distance + last.before.step_size

\* a step that returned Ok after a rejected attempt, on a stepper that had
\* stepped before
C27_Witness ==
    /\ last.op = "step" /\ last.res = "Ok"
    /\ last.attempts >= 2 /\ IsRejected(last.outs[1])
    /\ last.pre.distance # 0
    /\ Len(last.calls) = 1
    /\ last.calls[1].pos # last.pre.position

\* C28: n_sudden_reversals is the number of the most recent consecutive
\* acceptable attempts whose new direction had a negative dot product with
\* the then-current direction: 0 after place, reset to 0 by an acceptable
\* attempt that does not reverse, unchanged by rejected attempts, and
\* below sudden_reversals_for_sink whenever step returns Ok.
C28_ReversalCounter ==
    /\ state.n_sudden_reversals = rev_run
    /\ (last.op = "place" /\ Succeeded(last)) => state.n_sudden_reversals = 0
    /\ IsStep(last) =>
          /\ (IsAcceptable(Final(last.outs)) /\ ~Reverses(Final(last.outs), last.pre))
                => state.n_sudden_reversals = 0
          /\ (IsAcceptable(Final(last.outs)) /\ Reverses(Final(last.outs), last.pre))
                => state.n_sudden_reversals = last.pre.n_sudden_reversals + 1
          /\ ~IsAcceptable(Final(last.outs))
                => state.n_sudden_reversals = last.pre.n_sudden_reversals
          /\ last.res = "Ok"
                => state.n_sudden_reversals < config.sudden_reversals_for_sink

\* a step that returned Ok and did not reverse, after a rejected attempt,
\* on a stepper whose last step had reversed
C28_Witness ==
    /\ IsStep(last) /\ last.res = "Ok"
    /\ IsRejected(last.outs[1])
    /\ last.pre.n_sudden_reversals = 1
    /\ state.n_sudden_reversals = 0

\* C29: a place call that fails with Null or OutOfBounds leaves the whole
\* stepper state as it was before the call and does not invoke the
\* callback.
C29_FailedPlaceChangesNothing ==
    (last.op = "place" /\ last.res \in {"Null", "OutOfBounds"}) =>
        /\ state = last.pre
        /\ last.calls = << >>

\* a failed placement of a stepper that had been placed and had stepped
C29_Witness ==
    /\ last.op = "place" /\ last.res \in {"Null", "OutOfBounds"}
    /\ placed
    /\ last.pre.distance # 0
    /\ last.pre.n_sudden_reversals # 0
    /\ state.distance = last.pre.distance

\* what the claim says of a beam, given the points the closure was
\* invoked with
C30_Aligned(beam, points) ==
    /\ Len(points) >= 1
    /\ \A c \in 1..3 :
          /\ Len(beam.trajectory[c]) = Len(points)
          /\ \A k \in 1..Len(points) :
                beam.trajectory[c][k] = propagate(points[k]).deposition_position[c]
    /\ Len(beam.deposited_power_densities) = Len(points)
    /\ \A k \in 1..Len(points) :
          beam.deposited_power_densities[k]
             = propagate(points[k]).deposited_power_density
    /\ beam.total_propagation_distance = points[Len(points)].dist

\* C30: for every beam kept by generate (tracer result Ok) the x, y and z
\* trajectory vectors and deposited_power_densities have the same length,
\* the number of callback invocations of the trace (those of the
\* distribution traced alone), which is at least 1, with entries in
\* invocation order, and total_propagation_distance is the distance passed
\* to the last invocation; so collecting the swarm never indexes an empty
\* trajectory.  A Void trace yields no beam.
C30_BeamVectorsAligned ==
    pc \in {"swarm", "swarm_done", "aborted"} =>
        /\ \A i \in 1..Len(tasks) :
              tasks[i].pc = "done" =>
                 IF tasks[i].tracer_result = TracerVoid
                 THEN tasks[i].beam = << >>
                 ELSE /\ Len(tasks[i].beam) = 1
                      /\ C30_Aligned(tasks[i].beam[1],
                                     RunTrace(config, tasks[i].script).trajectory)
        /\ collected.result # <<"Panic">>
        /\ pc = "swarm_done" =>
              \A k \in 1..Len(collected.lines) :
                 collected.x0[k] = collected.lines[k].trajectory[1][1]

\* a collected swarm of a beam whose trace the callback ended at the
\* start position and a beam of several points
C30_Witness ==
    /\ pc = "swarm_done"
    /\ Len(collected.lines) = 2
    /\ \E a \in 1..2 : Len(collected.lines[a].deposited_power_densities) = 1
    /\ \E b \in 1..2 :
          /\ Len(collected.lines[b].trajectory[1]) >= 3
          /\ collected.lines[b].total_propagation_distance > 0

====
